---- MODULE Spec2Model ----
(***************************************************************************)
(* Model of emotext: the tolerance-timer message clusterer                 *)
(* (models/persistence.py, MessageCluster) and the ConceptNet graph search *)
(* (apis/text.py, build_graph; models/models.py, Node.edge_lookup).        *)
(*                                                                         *)
(* Time is a natural number of seconds.  One add_message call happens at   *)
(* one instant: the two datetime.now() reads of a call (the one in         *)
(* is_conversation_over and the one in start_tolerance) return the same    *)
(* value.                                                                  *)
(***************************************************************************)
EXTENDS Integers, Sequences, FiniteSets, TLC

\* ------------------------------------------------------------------------
\* Bounds of the model
\* ------------------------------------------------------------------------
MaxCalls == 4
MaxTime == 5
MaxTolerance == 2

VARIABLES
    now,             \* the clock, datetime.now()
    tolerance_time,  \* MessageCluster.tolerance_time, seconds
    db,              \* MessageCluster.db, the shelve store
    conversations,   \* the Conversation objects constructed so far, in order
    calls,           \* calls[i]: the i-th add_message call, its value and time
    last,            \* the last add_message call and the store before it
    remote,          \* the remote ConceptNet graph: its edges and failing names
    root_name,       \* the token the search was started for
    token_queue,     \* the nodes of this round still to be iterated over
    token_queue_copy,\* build_graph: token_queue_copy, the next round's queue
    used_names,      \* build_graph: used_names
    emo_vector,      \* build_graph: emo_vector
    depth,           \* build_graph: depth
    pc,              \* "idle", "loop" (inside build_graph) or "done" (returned)
    created,         \* every Node put into a token queue in this search
    looked_up,       \* every Node a lookup was issued for in this search
    results,         \* the vectors returned by the completed searches, in order
    threads,         \* the Thread state of each Conversation constructed
    token_list,      \* text_to_emotion: token_list
    cp_in,           \* calc_percentages: the mapping passed in
    cp_out,          \* calc_percentages: the mapping returned
    cp_pc,           \* "call" before and "returned" after calc_percentages
    files,           \* the shelve files on disk: file name -> stored mapping
    cache_last,      \* the last CacheController call and its result
    cache_added,     \* <<triple, word>> -> the vector last passed to add_word
    wi_in,           \* word_interpolation: the word dicts before the call
    wi_words,        \* word_interpolation: the same word dicts after the call
    wi_out,          \* word_interpolation: the list returned
    wi_pc,           \* "call" before and "returned" after word_interpolation
    config,          \* config.cfg: (section, key) -> value for the keys present
    tunables,        \* the module constants set from get_config at import
    process,         \* "start" before the imports, then "running" or "fatal"
    tp_text,         \* text_processing: the text passed in, a sequence of characters
    tp_remove_stopwords,\* text_processing: the argument remove_stopwords
    tp_out,          \* text_processing: the list of token lists returned
    tp_pc,           \* "call" before and "returned" after text_processing
    msg_text,        \* Message.text before to_emotion_vector, a sequence of characters
    msg_cc,          \* to_emotion_vector: cc, <<>> for None or <<triple>> of the CacheController
    msg_tokens,      \* to_emotion_vector: the tokens of the text, in order
    msg_done,        \* to_emotion_vector: the vectors put in the place of the first tokens
    msg_log,         \* for each of these tokens, whether it was cached and whether it was searched
    msg_pc,          \* "call", "loop", "search" (inside build_graph) or "returned"
    producers        \* the threads calling add_message: where each is in its call, its message and its local list

clusterVars == <<now, tolerance_time, db, conversations, calls, last, threads>>

textVars == <<token_list>>

percentVars == <<cp_in, cp_out, cp_pc>>

cacheVars == <<files, cache_last, cache_added>>

interpVars == <<wi_in, wi_words, wi_out, wi_pc>>

configVars == <<config, tunables, process>>

normalizeVars == <<tp_text, tp_remove_stopwords, tp_out, tp_pc>>

messageVars == <<msg_text, msg_cc, msg_tokens, msg_done, msg_log, msg_pc>>

concurrentVars == <<producers>>

libraryVars == <<concurrentVars, messageVars, normalizeVars, percentVars, cacheVars, interpVars, configVars>>

searchVars == <<remote, root_name, token_queue, token_queue_copy, used_names,
                emo_vector, depth, pc, created, looked_up, results>>

vars == <<clusterVars, searchVars, textVars, libraryVars>>

\* ------------------------------------------------------------------------
\* models/persistence.py : MessageCluster
\* ------------------------------------------------------------------------

\* The value types handed to add_message; only "Message" is an instance of
\* emotext.models.models.Message.
ValueTypes == {"Message", "str"}

\* The i-th value handed to add_message (a distinct object per call).
Value(type, i) == [type |-> type, id |-> i]

\* shelve.open('./message_clustering') on a fresh file: no keys.  A key that
\* is absent keeps the placeholder value (<<>> or 0) and is not in keys.
EmptyDb == [keys |-> {}, messages |-> <<>>, future_time |-> 0]

\* del self.db[key] for every key
reset_db(d) == EmptyDb

\* Variant: the list is not written back to the store.
db_set_messages_unwritten(d, msgs) == d

\* self.db['messages'] = msgs
db_set_messages(d, msgs) ==
    [d EXCEPT !.keys = @ \cup {"messages"}, !.messages = msgs]

\* self.db['future_time'] = t
db_set_future_time(d, t) ==
    [d EXCEPT !.keys = @ \cup {"future_time"}, !.future_time = t]

\* try: return self.db['messages'] / except: return list()
get_messages(d) ==
    IF "messages" \in d.keys THEN d.messages ELSE <<>>

\* Variant: the expiry is stored without the tolerance added.
expiry_time_no_tolerance(t, tol) == t

\* datetime.now() + timedelta(seconds=self.tolerance_time)
expiry_time(t, tol) == t + tol

start_tolerance(d, t, tol) == db_set_future_time(d, expiry_time(t, tol))

\* Variant: the comparison with the clock is inverted.
is_conversation_over_inverted(d, t) ==
    IF "future_time" \in d.keys THEN d.future_time > t ELSE TRUE

\* self.db['future_time'] < datetime.now(); a missing key counts as over
is_conversation_over(d, t) ==
    IF "future_time" \in d.keys THEN d.future_time < t ELSE TRUE

\* Variant: the type check is missing.
is_message_unchecked(v) == TRUE

\* isinstance(message, Message)
is_message(v) == v.type = "Message"

\* Variant: the old conversation is converted without the length check.
has_old_conversation_unguarded(d) == TRUE

\* len(self.get_messages()) > 0
has_old_conversation(d) == Len(get_messages(d)) > 0

\* Variant: the Conversation is built after the store has been reset.
to_conversation_obj_after_reset(d) == get_messages(reset_db(d))

\* Conversation(self.get_messages()): the Conversation's messages
to_conversation_obj(d) == get_messages(d)

\* Conversation(messages) is a Thread: Thread.__init__ leaves it not started.
\* add_message binds it to the local name conversation only, calls neither
\* start() nor run() and returns nothing, so no reference to it is left.
conversation_thread == [started |-> FALSE, referenced |-> FALSE]

\* Variant: the message is inserted at the front of the list.
append_message_front(msgs, m) == <<m>> \o msgs

\* messages = self.get_messages(); messages.append(message)
append_message(msgs, m) == Append(msgs, m)

\* ------------------------------------------------------------------------
\* apis/text.py : build_graph; models/models.py : Node
\* ------------------------------------------------------------------------
MAX_DEPTH == 3
MIN_WEIGHT == 1

EMOTIONS == {"love", "anger", "fear", "hate", "happiness", "pleasant",
             "sadness", "pity", "shame", "ecstasy", "boredom", "cry", "happy",
             "jealousy", "joy", "surprise", "regret", "frustration", "sorrow",
             "melancholy", "awe"}

\* LANG_TO_CODE['english']
lang_name_to_code(lang_name) == IF lang_name = "english" THEN "en" ELSE "None"

\* A concept URI '/c/<lang>/<name>' after s.split('/')
Uri(lang_code, name) == <<"", "c", lang_code, name>>

\* params_list[1], params_list[2], params_list[3] (0-based) of the split URI
extr_from_concept_net_edge(s) ==
    [type |-> s[2], lang_code |-> s[3], name |-> s[4]]

\* Node(name, lang_code, type, rel, weight, edges, parent); parent is <<>>
\* for None and <<p>> for the Node p.  The edges field is only read right
\* after edge_lookup has set it and is not kept.
Node(name, lang_code, type, rel, weight, parent) ==
    [name |-> name, lang_code |-> lang_code, type |-> type, rel |-> rel,
     weight |-> weight, parent |-> parent]

\* Node(t, lang_code, 'c')
RootNode(t, lang_code) == Node(t, lang_code, "c", "None", 0, <<>>)

\* The edges the remote graph holds on the concept (type, language, key).
IncidentEdges(rem, type, language, key) ==
    {e \in rem.edges :
        \/ e.start = <<"", type, language, key>>
        \/ e.end = <<"", type, language, key>>}

\* The orders in which a response can list a set of edges.
Orders(S) ==
    {f \in [1..Cardinality(S) -> S] :
        \A i, j \in 1..Cardinality(S) : i # j => f[i] # f[j]}

\* lookup(type, language, key) with the edges listed in the order es: the
\* request raises for a failing name, else the parsed JSON is returned.
lookup(rem, type, language, key, es) ==
    IF key \in rem.failing
    THEN [raised |-> TRUE, numFound |-> 0, edges |-> <<>>]
    ELSE [raised |-> FALSE, numFound |-> Len(es), edges |-> es]

\* token_res != None and token_res['numFound'] > 0, negated: edge_lookup
\* raises (or the lookup inside it did)
edge_lookup_raises(token_res) ==
    token_res.raised \/ ~(token_res.numFound > 0)

\* The loop of edge_lookup over token_res['edges'] from index i on: the
\* Nodes appended to edges.
RECURSIVE edge_lookup_edges(_, _, _, _, _)
edge_lookup_edges(self, names, lang_code, es, i) ==
    IF i > Len(es) THEN <<>>
    ELSE LET e == es[i]
             basic_start == extr_from_concept_net_edge(e.start)
             basic_end == extr_from_concept_net_edge(e.end)
             other == IF basic_end.name # self.name
                      THEN basic_end ELSE basic_start
             here == IF other.name \notin names /\ other.lang_code = lang_code
                     THEN <<Node(other.name, other.lang_code, other.type,
                                 e.rel, e.weight, <<self>>)>>
                     ELSE <<>>
         IN here \o edge_lookup_edges(self, names, lang_code, es, i + 1)

\* Variant: the recursion stops one round later.
max_depth_passed(d) == d > MAX_DEPTH

\* depth >= MAX_DEPTH
max_depth_reached(d) == d >= MAX_DEPTH

\* Variant: a token named by an emotion is taken out of the next queue.
copy_without_emotion(queue, token) == queue \ {token}

\* if token.name in EMOTIONS: token_queue_copy is left as it is, the token
\* stays in the queue of the next round
copy_after_emotion(queue, token) == queue

\* Variant: the exception of edge_lookup leaves build_graph.
pc_after_propagated_error == "raised"

\* except Exception as e: print e; continue -- the loop goes on
pc_after_failed_lookup == "loop"

\* Variant: an edge at MIN_WEIGHT is admitted.
is_admitted_at_boundary(new_edge, names) ==
    new_edge.name \notin names /\ new_edge.weight >= MIN_WEIGHT

\* new_edge.name not in used_names and new_edge.weight > MIN_WEIGHT
is_admitted(new_edge, names) ==
    new_edge.name \notin names /\ new_edge.weight > MIN_WEIGHT

\* The loop of build_graph over token.edges from index i on: used_names and
\* token_queue_copy after it.
RECURSIVE admit_edges(_, _, _, _)
admit_edges(edges, i, names, queue) ==
    IF i > Len(edges)
    THEN [used_names |-> names, token_queue_copy |-> queue]
    ELSE IF is_admitted(edges[i], names)
         THEN admit_edges(edges, i + 1, names \cup {edges[i].name},
                          queue \cup {edges[i]})
         ELSE admit_edges(edges, i + 1, names, queue)

RECURSIVE Factorial(_)
Factorial(n) == IF n <= 1 THEN 1 ELSE n * Factorial(n - 1)

\* Scores are exact fractions: the number s stands for the score s / Scale,
\* and every divisor 1/(i+1) of calc_nodes_weight divides Scale.
Scale == Factorial(MAX_DEPTH + 1)

\* for i, n in enumerate(weights): weight_num = weight_num + n * 1/(i+1),
\* from the 1-based position i on
RECURSIVE sum_weights(_, _, _)
sum_weights(weights, i, weight_num) ==
    IF i > Len(weights) THEN weight_num
    ELSE sum_weights(weights, i + 1, weight_num + (weights[i] * Scale) \div i)

RECURSIVE calc_nodes_weight(_, _, _, _)
calc_nodes_weight(node, emotion, weights, weight_num) ==
    IF node.parent = <<>>
    THEN sum_weights(weights, 1, weight_num)
    ELSE calc_nodes_weight(node.parent[1], emotion,
                           Append(weights, node.weight), weight_num)

\* emo_vector['emotions'][name] = emo_vector['emotions'][name] + w, or = w
\* when the key is missing
add_emotion(emotions, name, w) ==
    [k \in DOMAIN emotions \cup {name} |->
        IF k = name
        THEN (IF name \in DOMAIN emotions THEN emotions[name] + w ELSE w)
        ELSE emotions[k]]

RECURSIVE GCD(_, _)
GCD(a, b) == IF b = 0 THEN a ELSE GCD(b, a % b)

\* The quotient v / sum_values, in lowest terms
Quotient(v, sum_values) ==
    [num |-> v \div GCD(v, sum_values), den |-> sum_values \div GCD(v, sum_values)]

\* sum(emotions.values())
RECURSIVE sum_values_of(_)
sum_values_of(emotions) ==
    IF DOMAIN emotions = {} THEN 0
    ELSE LET k == CHOOSE k \in DOMAIN emotions : TRUE
         IN emotions[k]
            + sum_values_of([j \in DOMAIN emotions \ {k} |-> emotions[j]])

\* Variant: the entries are not filtered.
is_kept_unfiltered(v) == TRUE

\* if v != 0
is_kept(v) == v # 0

\* v/sum_values is evaluated for a kept entry while sum_values is 0:
\* ZeroDivisionError
calc_percentages_raises(emotions) ==
    /\ sum_values_of(emotions) = 0
    /\ \E k \in DOMAIN emotions : is_kept(emotions[k])

\* {k: v/sum_values for k, v in emotions.items() if v != 0}.  The scores
\* are the floats accumulated from the weights of the JSON responses; the
\* division is the exact quotient.
calc_percentages(emotions) ==
    [k \in {j \in DOMAIN emotions : is_kept(emotions[j])} |->
        Quotient(emotions[k], sum_values_of(emotions))]

\* The product of the denominators of the quotients of f.
RECURSIVE DenominatorProduct(_)
DenominatorProduct(f) ==
    IF DOMAIN f = {} THEN 1
    ELSE LET k == CHOOSE k \in DOMAIN f : TRUE
         IN f[k].den * DenominatorProduct([j \in DOMAIN f \ {k} |-> f[j]])

\* The sum of the quotients of f as a number of d-ths.
RECURSIVE QuotientSum(_, _)
QuotientSum(f, d) ==
    IF DOMAIN f = {} THEN 0
    ELSE LET k == CHOOSE k \in DOMAIN f : TRUE
         IN f[k].num * (d \div f[k].den)
            + QuotientSum([j \in DOMAIN f \ {k} |-> f[j]], d)

\* {'name': t, 'emotions': {}}
EmptyVector(t) == [name |-> t, emotions |-> <<>>]

\* ------------------------------------------------------------------------
\* The parts at rest
\* ------------------------------------------------------------------------
NoCall == [op |-> "none", outcome |-> "none", arg |-> Value("str", 0),
           at |-> 0, before |-> EmptyDb, before_conversations |-> <<>>]

\* No search has been started.
SearchIdle ==
    /\ remote = [edges |-> {}, failing |-> {}]
    /\ root_name = ""
    /\ token_queue = {}
    /\ token_queue_copy = {}
    /\ used_names = {}
    /\ emo_vector = EmptyVector("")
    /\ depth = 0
    /\ pc = "idle"
    /\ created = {}
    /\ looked_up = {}
    /\ results = <<>>

\* A MessageCluster on a fresh store that is never called.
ClusterIdle ==
    /\ now = 0
    /\ tolerance_time = 1
    /\ db = EmptyDb
    /\ conversations = <<>>
    /\ calls = <<>>
    /\ last = NoCall
    /\ threads = <<>>

\* text_to_emotion is not called.
TextIdle == token_list = <<>>

\* calc_percentages is not called on its own.
PercentIdle ==
    /\ cp_in = <<>>
    /\ cp_out = <<>>
    /\ cp_pc = "idle"

\* No cache file exists and no CacheController is used.
CacheIdle ==
    /\ files = <<>>
    /\ cache_last = [op |-> "none", n |-> 0]
    /\ cache_added = <<>>

\* word_interpolation is not called.
InterpIdle ==
    /\ wi_in = <<>>
    /\ wi_words = <<>>
    /\ wi_out = <<>>
    /\ wi_pc = "idle"

\* The configuration is not looked at.
ConfigIdle ==
    /\ config = <<>>
    /\ tunables = <<>>
    /\ process = "idle"

\* text_processing is not called.
NormalizeIdle ==
    /\ tp_text = <<>>
    /\ tp_remove_stopwords = TRUE
    /\ tp_out = <<>>
    /\ tp_pc = "idle"

\* to_emotion_vector is not called.
MessageIdle ==
    /\ msg_text = <<>>
    /\ msg_cc = <<>>
    /\ msg_tokens = <<>>
    /\ msg_done = <<>>
    /\ msg_log = <<>>
    /\ msg_pc = "idle"

\* No thread calls add_message beside the one of the clusterer model.
ConcurrentIdle ==
    /\ producers = <<>>

LibraryIdle == ConcurrentIdle /\ MessageIdle /\ NormalizeIdle /\ PercentIdle /\ CacheIdle /\ InterpIdle /\ ConfigIdle

\* ------------------------------------------------------------------------
\* The clusterer as a state machine
\* ------------------------------------------------------------------------
InitCluster ==
    /\ now = 0
    /\ tolerance_time \in 1..MaxTolerance
    /\ db = EmptyDb
    /\ conversations = <<>>
    /\ calls = <<>>
    /\ last = NoCall
    /\ threads = <<>>
    /\ SearchIdle
    /\ TextIdle
    /\ LibraryIdle

\* Variant: a timer seals the session when the clock passes its expiry.
TickSealingExpired ==
    /\ now < MaxTime
    /\ now' = now + 1
    /\ LET seal == is_conversation_over(db, now') /\ has_old_conversation(db)
       IN /\ conversations' = IF seal
                              THEN Append(conversations, to_conversation_obj(db))
                              ELSE conversations
          /\ threads' = IF seal THEN Append(threads, conversation_thread)
                        ELSE threads
          /\ db' = IF seal THEN reset_db(db) ELSE db
    /\ UNCHANGED <<tolerance_time, calls, last>>
    /\ UNCHANGED <<searchVars, textVars, libraryVars>>

\* The clock advances between calls.
Tick ==
    /\ now < MaxTime
    /\ now' = now + 1
    /\ UNCHANGED <<tolerance_time, db, conversations, calls, last, threads>>
    /\ UNCHANGED <<searchVars, textVars, libraryVars>>

\* MessageCluster.add_message(message), the call that is accepted
AddMessageAccepted(v) ==
    /\ is_message(v)
    /\ LET over == is_conversation_over(db, now)
           seal == over /\ has_old_conversation(db)
           stored == IF over
                     THEN db_set_messages(reset_db(db), <<v>>)
                     ELSE db_set_messages(db, append_message(get_messages(db), v))
       IN /\ conversations' = IF seal
                              THEN Append(conversations, to_conversation_obj(db))
                              ELSE conversations
          /\ threads' = IF seal
                        THEN Append(threads, conversation_thread)
                        ELSE threads
          /\ db' = start_tolerance(stored, now, tolerance_time)
          /\ last' = [op |-> "add_message",
                      outcome |-> IF over THEN "fresh" ELSE "append",
                      arg |-> v, at |-> now, before |-> db,
                      before_conversations |-> conversations]

\* MessageCluster.add_message(message), the call that raises
AddMessageRejected(v) ==
    /\ ~is_message(v)
    /\ last' = [op |-> "add_message", outcome |-> "raised",
                arg |-> v, at |-> now, before |-> db,
                before_conversations |-> conversations]
    /\ UNCHANGED <<db, conversations, threads>>

AddMessage ==
    /\ Len(calls) < MaxCalls
    /\ \E type \in ValueTypes :
         LET v == Value(type, Len(calls) + 1)
         IN /\ \/ AddMessageAccepted(v)
               \/ AddMessageRejected(v)
            /\ calls' = Append(calls, [value |-> v, at |-> now])
    /\ UNCHANGED <<now, tolerance_time>>
    /\ UNCHANGED <<searchVars, textVars, libraryVars>>

NextCluster == Tick \/ AddMessage

SpecCluster == InitCluster /\ [][NextCluster]_vars

\* ------------------------------------------------------------------------
\* Properties of the clusterer
\* ------------------------------------------------------------------------

\* The calls that were accepted, in arrival order.
Accepted == SelectSeq(calls, LAMBDA c : c.value.type = "Message")

\* The sealed sessions in sealing order, followed by the current session.
Sessions == Append(conversations, get_messages(db))

\* The sessions that hold the value v.
SessionsOf(v) ==
    {s \in 1..Len(Sessions) : \E p \in 1..Len(Sessions[s]) : Sessions[s][p] = v}

\* Whether the last call was accepted.
LastAccepted == last.outcome \in {"fresh", "append"}

\* C1: two consecutive accepted messages are in the same session when the
\* second arrives less than tolerance_time after the first and in different
\* sessions when it arrives more than tolerance_time after it; every session
\* holds its messages in arrival order.
C1_ClusteredByTolerance ==
    /\ \A k \in 1..(Len(Accepted) - 1) :
         LET a == Accepted[k]
             b == Accepted[k + 1]
             gap == b.at - a.at
         IN /\ Cardinality(SessionsOf(a.value)) = 1
            /\ Cardinality(SessionsOf(b.value)) = 1
            /\ gap < tolerance_time => SessionsOf(a.value) = SessionsOf(b.value)
            /\ gap > tolerance_time => SessionsOf(a.value) # SessionsOf(b.value)
    /\ \A s \in 1..Len(Sessions) : \A p, q \in 1..Len(Sessions[s]) :
         p < q => Sessions[s][p].id < Sessions[s][q].id

\* Two sessions: the first sealed with exactly one message, the current one
\* holding at least two messages.
C1_Witness ==
    /\ Len(conversations) >= 1
    /\ Len(conversations[1]) = 1
    /\ Len(get_messages(db)) >= 2

\* C2: a call that finds no session or an expired one seals the old session,
\* when it holds a message, into a Conversation with exactly the old messages
\* in their order, and leaves the current session equal to [m].
C2_FreshSessionSealsOld ==
    last.outcome = "fresh" =>
        /\ get_messages(db) = <<last.arg>>
        /\ LET old == get_messages(last.before)
           IN Len(old) > 0 =>
                conversations = Append(last.before_conversations, old)

\* A fresh session was started over an old session of two messages.
C2_Witness ==
    /\ last.outcome = "fresh"
    /\ Len(get_messages(last.before)) >= 2
    /\ Len(conversations) >= 1

\* C3: a call made at a time now >= expiry treats the session as over and
\* starts a fresh session.
C3_BoundaryCountsAsExpired ==
    (/\ LastAccepted
     /\ "future_time" \in last.before.keys
     /\ last.at >= last.before.future_time) => last.outcome = "fresh"

\* C4: a call made while the expiry is in the future appends m as the last
\* element, keeps the earlier messages and their order, and seals nothing.
C4_AppendKeepsOrder ==
    last.outcome = "append" =>
        /\ LET old == get_messages(last.before)
               new == get_messages(db)
           IN /\ Len(new) = Len(old) + 1
              /\ new[Len(new)] = last.arg
              /\ \A i \in 1..Len(old) : new[i] = old[i]
        /\ conversations = last.before_conversations

\* A message was appended to a session of at least two messages.
C4_Witness ==
    /\ last.outcome = "append"
    /\ Len(get_messages(last.before)) >= 2

\* C5: after every accepted call the stored expiry is the time of the call
\* plus the tolerance.
C5_ExpiryIsCallTimePlusTolerance ==
    LastAccepted =>
        /\ "future_time" \in db.keys
        /\ db.future_time = last.at + tolerance_time

\* A fresh session was started over a store that was reset.
C5_Witness ==
    /\ last.outcome = "fresh"
    /\ last.before.keys # {}
    /\ now > 0

\* C6: every Conversation produced holds at least one message.
C6_NoEmptyConversation ==
    \A i \in 1..Len(conversations) : Len(conversations[i]) >= 1

\* The first accepted call found an empty store and sealed nothing.
C6_Witness ==
    /\ last.outcome = "fresh"
    /\ last.before.keys = {}
    /\ conversations = <<>>

\* C7: a value that is not a Message is rejected with an error and leaves
\* the stored messages, the stored expiry and the Conversations unchanged.
C7_NonMessageRejected ==
    (last.op = "add_message" /\ last.arg.type # "Message") =>
        /\ last.outcome = "raised"
        /\ db = last.before
        /\ conversations = last.before_conversations

\* A non-Message was rejected while a session was stored.
C7_Witness ==
    /\ last.outcome = "raised"
    /\ Len(get_messages(db)) >= 1

\* C19: every Conversation that add_message builds when it seals a session
\* is started or kept for a caller to start and observe; none is built and
\* dropped.
C19_SealedConversationIsRun ==
    \A i \in 1..Len(threads) : threads[i].started \/ threads[i].referenced

\* ------------------------------------------------------------------------
\* The graph search as a state machine
\* ------------------------------------------------------------------------
MaxRuns == 2

\* The tokens a search is started for.
Tokens == {"w", "joy", "fear"}

Edge(start, end, rel, weight) ==
    [start |-> start, end |-> end, rel |-> rel, weight |-> weight]

\* The edges a remote graph is drawn from: two parallel edges w-x, two paths
\* from w to joy, an edge that ends in the token, an edge at MIN_WEIGHT, a
\* self-loop on the token and an edge to a concept of another language.
CandidateEdges ==
    { Edge(Uri("en", "w"), Uri("en", "x"), "RelatedTo", 2),
      Edge(Uri("en", "w"), Uri("en", "x"), "IsA", 6),
      Edge(Uri("en", "w"), Uri("en", "y"), "RelatedTo", 4),
      Edge(Uri("en", "x"), Uri("en", "joy"), "Causes", 3),
      Edge(Uri("en", "y"), Uri("en", "joy"), "Causes", 5),
      Edge(Uri("en", "fear"), Uri("en", "w"), "RelatedTo", 2),
      Edge(Uri("en", "x"), Uri("en", "y"), "RelatedTo", 1),
      Edge(Uri("en", "w"), Uri("en", "w"), "Synonym", 3),
      Edge(Uri("en", "x"), Uri("de", "z"), "TranslationOf", 5) }

\* The names whose lookup can fail.
FailingNames == {"y"}

\* build_graph(Set([Node(t, lang_code, 'c')]), Set([]), {'name': t,
\* 'emotions': {}}, 0), as called by text_to_emotion and to_emotion_vector
StartSearch(t) ==
    /\ root_name' = t
    /\ token_queue' = {RootNode(t, lang_name_to_code("english"))}
    /\ token_queue_copy' = {RootNode(t, lang_name_to_code("english"))}
    /\ used_names' = {}
    /\ emo_vector' = EmptyVector(t)
    /\ depth' = 0
    /\ pc' = "loop"
    /\ created' = {RootNode(t, lang_name_to_code("english"))}
    /\ looked_up' = {}

InitSearch ==
    /\ ClusterIdle
    /\ TextIdle
    /\ LibraryIdle
    /\ remote \in [edges : SUBSET CandidateEdges, failing : SUBSET FailingNames]
    /\ \E t \in Tokens :
         /\ root_name = t
         /\ token_queue = {RootNode(t, lang_name_to_code("english"))}
         /\ token_queue_copy = {RootNode(t, lang_name_to_code("english"))}
         /\ used_names = {}
         /\ emo_vector = EmptyVector(t)
         /\ created = {RootNode(t, lang_name_to_code("english"))}
    /\ depth = 0
    /\ pc = "loop"
    /\ looked_up = {}
    /\ results = <<>>

\* One iteration of the for loop on a token named by an emotion
VisitEmotion ==
    /\ pc = "loop"
    /\ ~max_depth_reached(depth)
    /\ \E token \in token_queue :
         /\ token.name \in EMOTIONS
         /\ emo_vector' =
              [emo_vector EXCEPT !.emotions =
                  add_emotion(@, token.name,
                              calc_nodes_weight(token, token.name, <<>>, 0))]
         /\ token_queue_copy' = copy_after_emotion(token_queue_copy, token)
         /\ token_queue' = token_queue \ {token}
    /\ UNCHANGED <<remote, root_name, used_names, depth, pc, created,
                   looked_up, results>>
    /\ UNCHANGED <<clusterVars, textVars, libraryVars>>

\* One iteration of the for loop on another token whose edge_lookup returns
Expand ==
    /\ pc = "loop"
    /\ ~max_depth_reached(depth)
    /\ \E token \in token_queue :
       \E es \in Orders(IncidentEdges(remote, token.type, token.lang_code,
                                      token.name)) :
         LET token_res == lookup(remote, token.type, token.lang_code,
                                 token.name, es)
             edges == edge_lookup_edges(token, used_names, "en",
                                        token_res.edges, 1)
             after == admit_edges(edges, 1, used_names,
                                  token_queue_copy \ {token})
         IN /\ token.name \notin EMOTIONS
            /\ ~edge_lookup_raises(token_res)
            /\ used_names' = after.used_names
            /\ token_queue_copy' = after.token_queue_copy
            /\ created' = created \cup (after.token_queue_copy \ token_queue_copy)
            /\ looked_up' = looked_up \cup {token}
            /\ token_queue' = token_queue \ {token}
    /\ UNCHANGED <<remote, root_name, emo_vector, depth, pc, results>>
    /\ UNCHANGED <<clusterVars, textVars, libraryVars>>

\* One iteration of the for loop on another token whose edge_lookup raises:
\* the exception is printed and the loop continues
ExpandFailed ==
    /\ pc = "loop"
    /\ ~max_depth_reached(depth)
    /\ \E token \in token_queue :
       \E es \in Orders(IncidentEdges(remote, token.type, token.lang_code,
                                      token.name)) :
         /\ token.name \notin EMOTIONS
         /\ edge_lookup_raises(lookup(remote, token.type, token.lang_code,
                                      token.name, es))
         /\ token_queue_copy' = token_queue_copy \ {token}
         /\ looked_up' = looked_up \cup {token}
         /\ token_queue' = token_queue \ {token}
    /\ pc' = pc_after_failed_lookup
    /\ UNCHANGED <<remote, root_name, used_names, emo_vector, depth,
                   created, results>>
    /\ UNCHANGED <<clusterVars, textVars, libraryVars>>

\* return build_graph(token_queue_copy, used_names, emo_vector, depth+1)
Recurse ==
    /\ pc = "loop"
    /\ ~max_depth_reached(depth)
    /\ token_queue = {}
    /\ depth' = depth + 1
    /\ token_queue' = token_queue_copy
    /\ UNCHANGED <<remote, root_name, token_queue_copy, used_names, emo_vector,
                   pc, created, looked_up, results>>
    /\ UNCHANGED <<clusterVars, textVars, libraryVars>>

\* if depth >= MAX_DEPTH: the percentages are calculated and returned
Return ==
    /\ pc = "loop"
    /\ max_depth_reached(depth)
    /\ emo_vector' = [emo_vector EXCEPT !.emotions = calc_percentages(@)]
    /\ results' = Append(results, emo_vector')
    /\ pc' = "done"
    /\ UNCHANGED <<remote, root_name, token_queue, token_queue_copy, used_names,
                   depth, created, looked_up>>
    /\ UNCHANGED <<clusterVars, textVars, libraryVars>>

\* The word-emotion computation is run again for the same token.
Rerun ==
    /\ pc = "done"
    /\ Len(results) < MaxRuns
    /\ StartSearch(root_name)
    /\ UNCHANGED <<remote, results>>
    /\ UNCHANGED <<clusterVars, textVars, libraryVars>>

NextSearch ==
    \/ VisitEmotion
    \/ Expand
    \/ ExpandFailed
    \/ Recurse
    \/ Return
    \/ Rerun

SpecSearch == InitSearch /\ [][NextSearch]_vars

\* The edges of the remote graphs with cycles: a triangle w, x, y, a
\* self-loop on w, an edge to fear and paths of two and of three edges to
\* joy.
CycleEdges ==
    { Edge(Uri("en", "fear"), Uri("en", "w"), "RelatedTo", 2),
      Edge(Uri("en", "w"), Uri("en", "x"), "RelatedTo", 2),
      Edge(Uri("en", "w"), Uri("en", "y"), "RelatedTo", 4),
      Edge(Uri("en", "x"), Uri("en", "y"), "Antonym", 3),
      Edge(Uri("en", "w"), Uri("en", "w"), "Synonym", 3),
      Edge(Uri("en", "x"), Uri("en", "joy"), "Causes", 3),
      Edge(Uri("en", "y"), Uri("en", "joy"), "Causes", 5) }

\* No lookup fails, the lookup of y fails, every lookup fails.
FailingSets == {{}, {"y"}, {"w", "x", "y", "joy", "fear"}}

InitTerminate ==
    /\ ClusterIdle
    /\ TextIdle
    /\ LibraryIdle
    /\ remote \in [edges : SUBSET CycleEdges, failing : FailingSets]
    /\ \E t \in Tokens :
         /\ root_name = t
         /\ token_queue = {RootNode(t, lang_name_to_code("english"))}
         /\ token_queue_copy = {RootNode(t, lang_name_to_code("english"))}
         /\ used_names = {}
         /\ emo_vector = EmptyVector(t)
         /\ created = {RootNode(t, lang_name_to_code("english"))}
    /\ depth = 0
    /\ pc = "loop"
    /\ looked_up = {}
    /\ results = <<>>

\* One call of build_graph from text_to_emotion up to its return
NextTerminate ==
    \/ VisitEmotion
    \/ Expand
    \/ ExpandFailed
    \/ Recurse
    \/ Return

\* build_graph runs in one thread and each of its steps returns (a lookup
\* returns or raises): a step that can be taken is taken.  Every step
\* changes pc, depth or token_queue.
SpecTerminate ==
    /\ InitTerminate
    /\ [][NextTerminate]_vars
    /\ WF_<<pc, depth, token_queue>>(NextTerminate)

\* ------------------------------------------------------------------------
\* Properties of the graph search
\* ------------------------------------------------------------------------

\* The number of parents between a Node and the root.
RECURSIVE NodeDepth(_)
NodeDepth(n) == IF n.parent = <<>> THEN 0 ELSE 1 + NodeDepth(n.parent[1])

\* The lookup of the Node fails or reports no relations.
LookupFails(n) ==
    \/ n.name \in remote.failing
    \/ IncidentEdges(remote, n.type, n.lang_code, n.name) = {}

\* C8: for a token that is an emotion label the search returns a vector with
\* exactly one entry, for that label, at weight 1.0.
C8_EmotionTokenScoresOne ==
    (pc = "done" /\ root_name \in EMOTIONS) =>
        emo_vector.emotions = [k \in {root_name} |-> Quotient(1, 1)]

\* C9: within one token's search every concept name, the token's own name
\* included, is the name of at most one Node put into a token queue.
C9_NoNameRevisited ==
    \A a, b \in created : a.name = b.name => a = b

\* C10: running the search again for the same token against the same remote
\* graph returns the same normalized vector, whatever the order in which
\* the token queue is iterated and the edges are listed.
C10_RerunYieldsSameVector ==
    \A i, j \in 1..Len(results) : results[i] = results[j]

\* C17: a lookup that fails or finds no relations never leaves build_graph
\* as an error; every other Node of the same round that is not an emotion
\* is still looked up in that round; a root token without relations yields
\* the empty vector.
C17_FailedLookupPrunesOneNode ==
    /\ pc # "raised"
    /\ \A n \in created :
         (n.name \notin EMOTIONS /\ NodeDepth(n) < depth) => n \in looked_up
    /\ (/\ pc = "done"
        /\ LookupFails(RootNode(root_name, lang_name_to_code("english"))))
           => emo_vector.emotions = <<>>

\* The search has returned a vector that is not empty although the lookup
\* of one of two Nodes of the same round failed.
C17_Witness ==
    /\ pc = "done"
    /\ emo_vector.emotions # <<>>
    /\ \E a, b \in looked_up :
         /\ NodeDepth(a) = NodeDepth(b)
         /\ LookupFails(a)
         /\ ~LookupFails(b)

\* The weight of the path to the Node as C22 states it: each Node of the
\* parent chain counts weight * 1/(rank+1), rank being the number of Nodes
\* between it and the root, so that the edge at the root counts in full.
RECURSIVE ClaimedPathWeight(_)
ClaimedPathWeight(n) ==
    IF n.parent = <<>> THEN 0
    ELSE (n.weight * Scale) \div NodeDepth(n)
            + ClaimedPathWeight(n.parent[1])

\* C22: when a Node named by an emotion label is reached in the loop, the
\* amount added to the vector for the label is the sum over its parent
\* chain of weight * 1/(rank+1), rank being the distance-from-root index.
C22_DiscountByDistanceFromRoot ==
    [][\A token \in token_queue \ token_queue' :
          (pc = "loop" /\ pc' = "loop" /\ token.name \in EMOTIONS) =>
              emo_vector'.emotions =
                  add_emotion(emo_vector.emotions, token.name,
                              ClaimedPathWeight(token))]_vars

\* The concept at the other end of an edge of the Node.
Neighbour(token, e) ==
    IF e.end # Uri(token.lang_code, token.name)
    THEN extr_from_concept_net_edge(e.end)
    ELSE extr_from_concept_net_edge(e.start)

\* The edges of the Node as the remote graph holds them.
EdgesOf(token) ==
    IncidentEdges(remote, token.type, token.lang_code, token.name)

\* The step is the iteration of the loop that expands the Node.
Expands(token) ==
    /\ pc = "loop"
    /\ pc' = "loop"
    /\ token \in token_queue \ token_queue'
    /\ token.name \notin EMOTIONS
    /\ ~LookupFails(token)

\* The Nodes the step adds to the next round's queue.
Admitted == token_queue_copy' \ token_queue_copy

\* Every Node admitted is a child of the Node expanded with the weight of
\* one of its edges, no name is admitted twice, the names admitted are in
\* used_names from then on, and used_names only grows within a search.
AdmittedAreChildren(token) ==
    /\ \A n \in Admitted :
         /\ n.parent = <<token>>
         /\ \E e \in EdgesOf(token) :
              /\ Neighbour(token, e).name = n.name
              /\ e.weight = n.weight
              /\ e.weight > MIN_WEIGHT
    /\ \A a, b \in Admitted : a.name = b.name => a = b
    /\ used_names' = used_names \cup {n.name : n \in Admitted}

\* C23 as stated: a neighbour is admitted if and only if its name is not
\* in used_names and the weight of its edge is greater than MIN_WEIGHT.
C23_AdmittedIffNewAndHeavy ==
    [][/\ \A token \in token_queue :
            Expands(token) =>
              /\ {n.name : n \in Admitted} =
                   {Neighbour(token, e).name : e \in
                      {e \in EdgesOf(token) :
                          /\ Neighbour(token, e).name \notin used_names
                          /\ e.weight > MIN_WEIGHT}}
              /\ AdmittedAreChildren(token)
       /\ (pc = "loop" /\ pc' = "loop") => used_names \subseteq used_names'
      ]_vars

\* C23 amended: a neighbour of the language 'en' is admitted if and only
\* if its name is not in used_names and the weight of its edge is greater
\* than MIN_WEIGHT; a neighbour of another language is never admitted.
C23_EnglishAdmittedIffNewAndHeavy ==
    [][/\ \A token \in token_queue :
            Expands(token) =>
              /\ {n.name : n \in Admitted} =
                   {Neighbour(token, e).name : e \in
                      {e \in EdgesOf(token) :
                          /\ Neighbour(token, e).lang_code = "en"
                          /\ Neighbour(token, e).name \notin used_names
                          /\ e.weight > MIN_WEIGHT}}
              /\ \A n \in Admitted : n.lang_code = "en"
              /\ AdmittedAreChildren(token)
       /\ (pc = "loop" /\ pc' = "loop") => used_names \subseteq used_names'
      ]_vars

\* A Node was expanded that has an edge at MIN_WEIGHT to a name not admitted,
\* an edge to a concept of another language and an admitted child.
C23_Witness ==
    \E token \in looked_up :
        /\ \E e \in EdgesOf(token) :
             /\ e.weight = MIN_WEIGHT
             /\ Neighbour(token, e).name \notin used_names
        /\ \E e \in EdgesOf(token) : Neighbour(token, e).lang_code # "en"
        /\ \E n \in created : n.parent = <<token>>

\* The vector is normalized: it is empty or its values sum to 1.
IsNormalized(emotions) ==
    \/ emotions = <<>>
    \/ QuotientSum(emotions, DenominatorProduct(emotions))
          = DenominatorProduct(emotions)

\* C24: build_graph returns for every remote graph after MAX_DEPTH rounds
\* at most, issues at most one lookup per Node created that is not an
\* emotion, returns the normalized vector, and rounds on an empty queue
\* change nothing in the vector.
C24_SearchTerminates ==
    /\ [](depth <= MAX_DEPTH)
    /\ (pc = "loop") ~> (pc = "done")
    /\ [](pc = "done" =>
            /\ IsNormalized(emo_vector.emotions)
            /\ results[Len(results)] = emo_vector)
    /\ [](looked_up \subseteq {n \in created : n.name \notin EMOTIONS})
    /\ [][/\ \A token \in token_queue \ token_queue' :
               (pc = "loop" /\ pc' = "loop" /\ token.name \notin EMOTIONS)
                   => token \notin looked_up
          /\ (/\ pc = "loop"
              /\ pc' = "loop"
              /\ token_queue = {}
              /\ token_queue_copy = {}) => emo_vector' = emo_vector
         ]_vars

\* A search over a graph with a cycle has returned a vector that is not
\* empty although one lookup failed.
C24_Witness ==
    /\ pc = "done"
    /\ depth = MAX_DEPTH
    /\ emo_vector.emotions # <<>>
    /\ Edge(Uri("en", "w"), Uri("en", "w"), "Synonym", 3) \in remote.edges
    /\ \E n \in looked_up : LookupFails(n)

\* The sum over the Nodes of S of the path weight of the Node times the
\* number of rounds left after the round that created it.
RECURSIVE RoundsTimesWeight(_)
RoundsTimesWeight(S) ==
    IF S = {} THEN 0
    ELSE LET n == CHOOSE n \in S : TRUE
         IN (MAX_DEPTH - NodeDepth(n)) * calc_nodes_weight(n, n.name, <<>>, 0)
                + RoundsTimesWeight(S \ {n})

\* The Nodes created for the label less than MAX_DEPTH from the root.
LabelNodes(label) ==
    {n \in created : n.name = label /\ NodeDepth(n) < MAX_DEPTH}

\* C25: a Node named by an emotion is never looked up and stays in the
\* queue of every later round, a Node that was looked up is not in the next
\* queue; when the rounds are over the vector holds for every label the
\* path weight of each of its Nodes created at distance d < MAX_DEPTH from
\* the root MAX_DEPTH - d times, and nothing for Nodes created at distance
\* MAX_DEPTH.
C25_LabelCountedEveryRound ==
    /\ \A n \in looked_up : n.name \notin EMOTIONS /\ n \notin token_queue_copy
    /\ \A n \in created : n.name \in EMOTIONS => n \in token_queue_copy
    /\ (pc = "loop" /\ depth = MAX_DEPTH) =>
          /\ DOMAIN emo_vector.emotions =
                {label \in EMOTIONS : LabelNodes(label) # {}}
          /\ \A label \in DOMAIN emo_vector.emotions :
                emo_vector.emotions[label] = RoundsTimesWeight(LabelNodes(label))

\* The rounds are over with a label Node at distance 1 and another label
\* Node at distance MAX_DEPTH from the root.
C25_Witness ==
    /\ pc = "loop"
    /\ depth = MAX_DEPTH
    /\ \E n \in created : n.name \in EMOTIONS /\ NodeDepth(n) = 1
    /\ \E n \in created : n.name \in EMOTIONS /\ NodeDepth(n) = MAX_DEPTH

\* ------------------------------------------------------------------------
\* apis/text.py : text_to_emotion
\* ------------------------------------------------------------------------
MaxTokens == 2

\* The token lists of at most MaxTokens tokens.
TokenLists == UNION {[1..n -> Tokens] : n \in 0..MaxTokens}

\* The edges a remote graph is drawn from while token lists are processed.
TextEdges ==
    { Edge(Uri("en", "w"), Uri("en", "x"), "RelatedTo", 2),
      Edge(Uri("en", "w"), Uri("en", "y"), "RelatedTo", 4),
      Edge(Uri("en", "x"), Uri("en", "joy"), "Causes", 3),
      Edge(Uri("en", "fear"), Uri("en", "w"), "RelatedTo", 2) }

\* Variant: the length of the list is not checked.
token_list_too_short_unchecked(tl) == FALSE

\* len(token_list) < 1
token_list_too_short(tl) == Len(tl) < 1

InitText ==
    /\ ClusterIdle
    /\ LibraryIdle
    /\ token_list \in TokenLists
    /\ remote \in [edges : SUBSET TextEdges, failing : {{}}]
    /\ root_name = ""
    /\ token_queue = {}
    /\ token_queue_copy = {}
    /\ used_names = {}
    /\ emo_vector = EmptyVector("")
    /\ depth = 0
    /\ pc = "call"
    /\ created = {}
    /\ looked_up = {}
    /\ results = <<>>

\* raise Exception('The token_list must contain at least one word.')
TextToEmotionRaises ==
    /\ pc = "call"
    /\ token_list_too_short(token_list)
    /\ pc' = "raised"
    /\ UNCHANGED <<remote, root_name, token_queue, token_queue_copy, used_names,
                   emo_vector, depth, created, looked_up, results>>
    /\ UNCHANGED <<clusterVars, textVars, libraryVars>>

\* The list comprehension calls build_graph for the next token t.
NextToken ==
    /\ pc \in {"call", "done"}
    /\ pc = "call" => ~token_list_too_short(token_list)
    /\ Len(results) < Len(token_list)
    /\ StartSearch(token_list[Len(results) + 1])
    /\ UNCHANGED <<remote, results>>
    /\ UNCHANGED <<clusterVars, textVars, libraryVars>>

\* The list comprehension is exhausted and the list is returned.
TextToEmotionReturns ==
    /\ pc \in {"call", "done"}
    /\ pc = "call" => ~token_list_too_short(token_list)
    /\ Len(results) = Len(token_list)
    /\ pc' = "returned"
    /\ UNCHANGED <<remote, root_name, token_queue, token_queue_copy, used_names,
                   emo_vector, depth, created, looked_up, results>>
    /\ UNCHANGED <<clusterVars, textVars, libraryVars>>

NextText ==
    \/ TextToEmotionRaises
    \/ NextToken
    \/ TextToEmotionReturns
    \/ VisitEmotion
    \/ Expand
    \/ ExpandFailed
    \/ Recurse
    \/ Return

SpecText == InitText /\ [][NextText]_vars

\* C18: text_to_emotion on an empty token list raises, issues no lookup and
\* returns nothing; on a list that is not empty it returns exactly one
\* vector per token, in token order.
C18_EmptyTokenListRejected ==
    /\ token_list = <<>> =>
         /\ pc \in {"call", "raised"}
         /\ looked_up = {}
         /\ results = <<>>
    /\ pc = "raised" => token_list = <<>>
    /\ pc = "returned" =>
         /\ Len(results) = Len(token_list)
         /\ \A i \in 1..Len(token_list) : results[i].name = token_list[i]

\* The call with the empty token list has raised.
C18_Witness ==
    /\ pc = "raised"
    /\ token_list = <<>>

\* ------------------------------------------------------------------------
\* calc_percentages as a function of its argument
\* ------------------------------------------------------------------------
MaxScore == 3

\* The labels of the mappings passed in.
PercentLabels == {"love", "cry", "sadness"}

\* The mappings from some of the labels to a score of at most MaxScore.
ScoreMappings ==
    UNION {[D -> 0..MaxScore] : D \in SUBSET PercentLabels}

InitPercent ==
    /\ ClusterIdle
    /\ SearchIdle
    /\ TextIdle
    /\ ConcurrentIdle
    /\ MessageIdle
    /\ NormalizeIdle
    /\ CacheIdle
    /\ InterpIdle
    /\ ConfigIdle
    /\ cp_in \in ScoreMappings
    /\ cp_out = <<>>
    /\ cp_pc = "call"

\* calc_percentages(emotions)
CalcPercentages ==
    /\ cp_pc = "call"
    /\ IF calc_percentages_raises(cp_in)
       THEN cp_pc' = "raised" /\ cp_out' = cp_out
       ELSE cp_pc' = "returned" /\ cp_out' = calc_percentages(cp_in)
    /\ UNCHANGED <<cp_in, clusterVars, searchVars, textVars, concurrentVars, messageVars, normalizeVars, cacheVars,
                   interpVars, configVars>>

NextPercent == CalcPercentages

SpecPercent == InitPercent /\ [][NextPercent]_vars

MaxCacheOps == 3

\* The characters of the decimal digits.
DigitChars == <<"0", "1", "2", "3", "4", "5", "6", "7", "8", "9">>

\* '%d' % n for a natural number n, as its sequence of characters
RECURSIVE FormatD(_)
FormatD(n) ==
    IF n < 10 THEN <<DigitChars[n + 1]>>
    ELSE FormatD(n \div 10) \o <<DigitChars[(n % 10) + 1]>>

\* Variant: the three numbers are written without a separator.
cache_file_name_unseparated(max_depth, min_weight, req_limit) ==
    <<"./word_cache_">> \o FormatD(max_depth) \o FormatD(min_weight)
        \o FormatD(req_limit)

\* './word_cache_%d_%d_%d' % (self.max_depth, self.min_weight, self.req_limit)
cache_file_name(max_depth, min_weight, req_limit) ==
    <<"./word_cache_">> \o FormatD(max_depth) \o <<"_">>
        \o FormatD(min_weight) \o <<"_">> \o FormatD(req_limit)

\* shelve.open(name): the file is created empty when it does not exist
shelve_open(fs, name) ==
    IF name \in DOMAIN fs THEN fs
    ELSE [f \in DOMAIN fs \cup {name} |-> IF f = name THEN <<>> ELSE fs[f]]

\* Variant: an existing key keeps its value.
shelf_set_keep_old(shelf, word, emotions) ==
    [k \in DOMAIN shelf \cup {word} |->
        IF k \in DOMAIN shelf THEN shelf[k] ELSE emotions]

\* self.cache[word] = emotions
shelf_set(shelf, word, emotions) ==
    [k \in DOMAIN shelf \cup {word} |->
        IF k = word THEN emotions ELSE shelf[k]]

\* try: return self.cache[word] / except: return None
shelf_get(shelf, word) ==
    IF word \in DOMAIN shelf
    THEN [hit |-> TRUE, value |-> <<shelf[word]>>]
    ELSE [hit |-> FALSE, value |-> <<>>]

\* The values of max_depth, min_weight and req_limit (read with getint).
ParamValues == {1, 11}

\* The parameter triples a CacheController is built with.
Triples == {<<a, b, 1>> : a, b \in ParamValues}

\* The words (ASCII token strings) used as keys.
CacheWords == {"w", "joy"}

\* The emotion dictionaries stored.
CacheVectors ==
    {[name |-> "w", emotions |-> <<>>],
     [name |-> "w", emotions |-> [k \in {"joy"} |-> Quotient(1, 1)]]}

InitCache ==
    /\ ClusterIdle
    /\ SearchIdle
    /\ TextIdle
    /\ ConcurrentIdle
    /\ MessageIdle
    /\ NormalizeIdle
    /\ PercentIdle
    /\ InterpIdle
    /\ ConfigIdle
    /\ files = <<>>
    /\ cache_last = [op |-> "none", n |-> 0]
    /\ cache_added = <<>>

\* CacheController(max_depth, min_weight, req_limit).add_word(word, emotions)
AddWord ==
    /\ cache_last.n < MaxCacheOps
    /\ \E t \in Triples, word \in CacheWords, emotions \in CacheVectors :
         LET name == cache_file_name(t[1], t[2], t[3])
             opened == shelve_open(files, name)
         IN /\ files' = [opened EXCEPT
                            ![name] = shelf_set(@, word, emotions)]
            /\ cache_added' =
                 [k \in DOMAIN cache_added \cup {<<t, word>>} |->
                     IF k = <<t, word>> THEN emotions ELSE cache_added[k]]
            /\ cache_last' = [op |-> "add_word", n |-> cache_last.n + 1,
                              triple |-> t, word |-> word,
                              hit |-> FALSE, value |-> <<>>]
    /\ UNCHANGED <<clusterVars, searchVars, textVars, concurrentVars, messageVars, normalizeVars, percentVars, interpVars,
                   configVars>>

\* CacheController(max_depth, min_weight, req_limit).fetch_word(word)
FetchWord ==
    /\ cache_last.n < MaxCacheOps
    /\ \E t \in Triples, word \in CacheWords :
         LET name == cache_file_name(t[1], t[2], t[3])
             opened == shelve_open(files, name)
             res == shelf_get(opened[name], word)
         IN /\ files' = opened
            /\ cache_last' = [op |-> "fetch_word", n |-> cache_last.n + 1,
                              triple |-> t, word |-> word,
                              hit |-> res.hit, value |-> res.value]
    /\ UNCHANGED <<cache_added, clusterVars, searchVars, textVars, concurrentVars, messageVars, normalizeVars, percentVars,
                   interpVars, configVars>>

NextCache == AddWord \/ FetchWord

SpecCache == InitCache /\ [][NextCache]_vars

\* The triples under which the word was passed to add_word.
AddedUnder(word) == {t \in Triples : <<t, word>> \in DOMAIN cache_added}

\* C12: fetch_word(w) after add_word(w, v) on a CacheController of the same
\* parameters returns the vector of the latest add_word for w, and
\* fetch_word on a word that was never added returns None.
C12_CacheRoundTrip ==
    cache_last.op = "fetch_word" =>
        /\ cache_last.triple \in AddedUnder(cache_last.word) =>
             /\ cache_last.hit
             /\ cache_last.value =
                  <<cache_added[<<cache_last.triple, cache_last.word>>]>>
        /\ AddedUnder(cache_last.word) = {} => ~cache_last.hit

\* A fetch_word after two other calls found a vector that is not empty.
C12_Witness ==
    /\ cache_last.op = "fetch_word"
    /\ cache_last.n = 3
    /\ cache_last.hit
    /\ cache_last.value[1].emotions # <<>>

\* C13: a vector stored by a CacheController built with one parameter
\* triple is never returned by fetch_word of a CacheController built with
\* a triple that differs in a component.
C13_CachePartitionedByTriple ==
    (/\ cache_last.op = "fetch_word"
     /\ cache_last.triple \notin AddedUnder(cache_last.word))
        => ~cache_last.hit

\* A word stored under another triple was fetched and missed.
C13_Witness ==
    /\ cache_last.op = "fetch_word"
    /\ ~cache_last.hit
    /\ AddedUnder(cache_last.word) # {}
    /\ cache_last.triple \notin AddedUnder(cache_last.word)

\* ------------------------------------------------------------------------
\* models/models.py : Conversation.word_interpolation
\* ------------------------------------------------------------------------
MaxWords == 3

RECURSIVE Power(_, _)
Power(b, e) == IF e = 0 THEN 1 ELSE b * Power(b, e - 1)

\* Emotion values are exact fractions: the number s stands for the value
\* s / InterpScale, so that every division by 3 of a call is exact.
InterpScale == Power(3, MaxWords)

\* The emotion values of the word dicts passed in, 0 and 3.
InterpValues == {0, 3 * InterpScale}

\* The emotion dictionaries of the word dicts passed in.
InterpEmotions ==
    UNION {[D -> InterpValues] : D \in SUBSET {"joy", "fear"}}

\* list(words.values()) of length n: the word dicts in the order of the
\* dict, each a distinct object named after its position.
WordLists(n) ==
    {[i \in 1..n |-> [name |-> i, emotions |-> es[i]]] :
        es \in [1..n -> InterpEmotions]}

\* if e in v['emotions']: v['emotions'][e] / else: 0
emotion_or_zero(v, e) ==
    IF e \in DOMAIN v.emotions THEN v.emotions[e] ELSE 0

\* Variant: the middle value is left out of the sum.
average_without_middle(left_e, middle_e, right_e) == (left_e + right_e) \div 3

\* (left_e + middle_e + right_e)/3
average(left_e, middle_e, right_e) == (left_e + middle_e + right_e) \div 3

\* interpolate_e_vector(left, middle, right): middle['emotions'] after the
\* loop; middle is changed in place and returned
interpolate_e_vector(left, middle, right) ==
    [middle EXCEPT !.emotions =
        [e \in DOMAIN left.emotions \cup DOMAIN middle.emotions
                \cup DOMAIN right.emotions |->
            average(emotion_or_zero(left, e), emotion_or_zero(middle, e),
                    emotion_or_zero(right, e))]]

\* words[i-1] for the 0-based i: the index -1 is the last element
\* (positions here are 1-based)
prev_index(i, n) == IF i = 1 THEN n ELSE i - 1

\* Variant: the last element takes itself as its right neighbour.
next_index_clamped(i, n) == IF i = n THEN n ELSE i + 1

\* words[0] if i == len(words)-1 else words[i+1]
next_index(i, n) == IF i = n THEN 1 ELSE i + 1

\* The for loop of word_interpolation from position i on.  words holds the
\* word dicts as they stand, refs the positions of the dicts appended to
\* interpolated_words (the list holds the dicts themselves, not copies).
\* No word dict is None, so prev_w and next_w pass the None test.
RECURSIVE word_interpolation_loop(_, _, _)
word_interpolation_loop(words, i, refs) ==
    IF i > Len(words) THEN [words |-> words, refs |-> refs]
    ELSE LET prev_w == words[prev_index(i, Len(words))]
             next_w == words[next_index(i, Len(words))]
             interpolated_w == interpolate_e_vector(prev_w, words[i], next_w)
         IN word_interpolation_loop([words EXCEPT ![i] = interpolated_w],
                                    i + 1, Append(refs, i))

InitInterp ==
    /\ ClusterIdle
    /\ SearchIdle
    /\ TextIdle
    /\ ConcurrentIdle
    /\ MessageIdle
    /\ NormalizeIdle
    /\ PercentIdle
    /\ CacheIdle
    /\ ConfigIdle
    /\ \E n \in 1..MaxWords : wi_in \in WordLists(n)
    /\ wi_words = wi_in
    /\ wi_out = <<>>
    /\ wi_pc = "call"

\* Conversation.word_interpolation(words)
WordInterpolation ==
    /\ wi_pc = "call"
    /\ LET done == word_interpolation_loop(wi_words, 1, <<>>)
       IN /\ wi_words' = done.words
          /\ wi_out' = [k \in 1..Len(done.refs) |-> done.words[done.refs[k]]]
    /\ wi_pc' = "returned"
    /\ UNCHANGED <<wi_in, clusterVars, searchVars, textVars, concurrentVars, messageVars, normalizeVars, percentVars,
                   cacheVars, configVars>>

NextInterp == WordInterpolation

SpecInterp == InitInterp /\ [][NextInterp]_vars

\* The labels of the original vectors at the positions p, i and q.
OriginalLabels(p, i, q) ==
    DOMAIN wi_in[p].emotions \cup DOMAIN wi_in[i].emotions
        \cup DOMAIN wi_in[q].emotions

\* The value (left + middle + right) / 3 of the label e computed from the
\* original vectors, absent labels counting as 0.
OriginalAverage(p, i, q, e) ==
    (emotion_or_zero(wi_in[p], e) + emotion_or_zero(wi_in[i], e)
        + emotion_or_zero(wi_in[q], e)) \div 3

\* The cyclic neighbours of position i among n positions.
LeftOf(i, n) == ((i + n - 2) % n) + 1
RightOf(i, n) == (i % n) + 1

\* C14: for every position i and every label of the original vectors at
\* (i-1) mod n, i and (i+1) mod n the smoothed value is
\* (left + middle + right) / 3 of the original vectors.
C14_SmoothedFromOriginals ==
    wi_pc = "returned" =>
        \A i \in 1..Len(wi_in) :
            LET n == Len(wi_in)
                labels == OriginalLabels(LeftOf(i, n), i, RightOf(i, n))
            IN /\ i <= Len(wi_out)
               /\ labels \subseteq DOMAIN wi_out[i].emotions
               /\ \A e \in labels :
                    wi_out[i].emotions[e]
                        = OriginalAverage(LeftOf(i, n), i, RightOf(i, n), e)

\* C15: interpolating exactly one vector returns a vector equal to the
\* original, same labels and same values.
C15_SingleVectorUnchanged ==
    (wi_pc = "returned" /\ Len(wi_in) = 1) => wi_out = wi_in

\* A single vector with a value that is not zero was interpolated.
C15_Witness ==
    /\ wi_pc = "returned"
    /\ Len(wi_in) = 1
    /\ \E e \in DOMAIN wi_in[1].emotions : wi_in[1].emotions[e] # 0

\* C16: the list returned has the length of the input, its i-th element is
\* the i-th input word smoothed, the first element is smoothed with the
\* last element as left neighbour and the last element with the first
\* element as right neighbour (each neighbour as it stands when read).
C16_SameLengthCyclic ==
    wi_pc = "returned" =>
        LET n == Len(wi_in)
        IN /\ Len(wi_out) = n
           /\ \A i \in 1..n : wi_out[i].name = wi_in[i].name
           /\ \A e \in DOMAIN wi_out[1].emotions :
                wi_out[1].emotions[e] = OriginalAverage(n, 1, RightOf(1, n), e)
           /\ n >= 2 =>
                \A e \in DOMAIN wi_out[n].emotions :
                    wi_out[n].emotions[e] =
                        (emotion_or_zero(wi_out[n - 1], e)
                            + emotion_or_zero(wi_in[n], e)
                            + emotion_or_zero(wi_out[1], e)) \div 3

\* Three vectors were interpolated and the first has a value that the last
\* does not have.
C16_Witness ==
    /\ wi_pc = "returned"
    /\ Len(wi_in) = 3
    /\ \E e \in DOMAIN wi_out[1].emotions :
         emotion_or_zero(wi_out[1], e) # emotion_or_zero(wi_out[3], e)

\* C29: interpolation does not modify its input: after word_interpolation
\* returns every word dict passed in has the labels and the values it had
\* before the call.
C29_InputsUnchanged == wi_pc = "returned" => wi_words = wi_in

\* ------------------------------------------------------------------------
\* utils/utils.py : get_config and the module constants read with it
\* ------------------------------------------------------------------------

\* The (section, key) pairs the modules read at import: apis/text.py,
\* models/models.py and models/persistence.py.
TextKeys == {<<"emotext_graph_search", "MAX_DEPTH">>,
             <<"emotext_graph_search", "MIN_WEIGHT">>}
ModelsKeys == {<<"graph_search", "MAX_DEPTH">>,
               <<"graph_search", "MIN_WEIGHT">>,
               <<"conceptnet5_parameters", "REQ_LIMIT">>}
PersistenceKeys == {<<"clustering", "TOLERANCE_TIME">>}
TunableKeys == TextKeys \cup ModelsKeys \cup PersistenceKeys

\* The integer values a key of config.cfg can have.
ConfigValues == {1, 3}

\* The config.cfg files: each tunable is absent or has a value.
ConfigFiles == UNION {[D -> ConfigValues] : D \in SUBSET TunableKeys}

\* get_config(section, key, 'getint'): the value, or None after the
\* exception of a missing section or key was caught and a message printed
get_config(cfg, section, key) ==
    IF <<section, key>> \in DOMAIN cfg
    THEN [is_none |-> FALSE, value |-> cfg[<<section, key>>]]
    ELSE [is_none |-> TRUE, value |-> 0]

\* CacheController(max_depth=MAX_DEPTH, min_weight=MIN_WEIGHT,
\* req_limit=REQ_LIMIT) in the signature of to_emotion_vector is evaluated
\* when models.py is imported: '%d' % None raises TypeError
cache_controller_default_raises(t) ==
    \E k \in ModelsKeys : t[k].is_none

InitConfig ==
    /\ ClusterIdle
    /\ SearchIdle
    /\ TextIdle
    /\ ConcurrentIdle
    /\ MessageIdle
    /\ NormalizeIdle
    /\ PercentIdle
    /\ CacheIdle
    /\ InterpIdle
    /\ config \in ConfigFiles
    /\ tunables = <<>>
    /\ process = "start"

\* The modules are imported: every module constant is set from get_config.
Startup ==
    /\ process = "start"
    /\ tunables' = [k \in TunableKeys |-> get_config(config, k[1], k[2])]
    /\ process' = IF cache_controller_default_raises(tunables')
                  THEN "fatal" ELSE "running"
    /\ UNCHANGED <<config, clusterVars, searchVars, textVars, concurrentVars, messageVars, normalizeVars, percentVars,
                   cacheVars, interpVars>>

NextConfig == Startup

SpecConfig == InitConfig /\ [][NextConfig]_vars

\* C20: a tunable that is absent from the configuration is fatal at
\* startup: in a running process no module constant holds None.
C20_MissingTunableIsFatal ==
    process = "running" => \A k \in DOMAIN tunables : ~tunables[k].is_none

\* ------------------------------------------------------------------------
\* apis/text.py : text_processing(text, stemming=False), the call of the
\* test, of handle_message and of to_emotion_vector: remove_punctuation is
\* True and the language is 'english'
\* ------------------------------------------------------------------------
MaxText == 5

\* The lower-case letters, and the upper-case letters with their lower case
LowerLetters == {"a", "b", "c", "d", "e", "f", "g", "h", "i", "j", "k", "l",
                 "m", "n", "o", "p", "q", "r", "s", "t", "u", "v", "w", "x",
                 "y", "z"}
UpperToLower == [I |-> "i", T |-> "t", J |-> "j", S |-> "s"]

\* The characters the pattern \w matches (of the characters used here)
is_word_char(c) == c \in LowerLetters \cup DOMAIN UpperToLower

\* c.lower()
char_lower(c) == IF c \in DOMAIN UpperToLower THEN UpperToLower[c] ELSE c

\* w.lower()
lower(w) == [k \in 1..Len(w) |-> char_lower(w[k])]

\* The words of stopwords.words('english') that the texts used here can
\* hold: all of them are lower case.
StopWords == {<<"i">>, <<"t">>, <<"i", "t">>, <<"i", "s">>, <<"n", "o", "t">>}

\* Variant: the word is compared in lower case.
is_stopword_ignoring_case(w) == lower(w) \in StopWords

\* w in stopwords.words(language)
is_stopword(w) == w \in StopWords

\* The position of the first character after position p that is not a
\* space, or 0 when there is none: the start of the next token
NextTokStart(t, p) ==
    IF \E q \in (p + 1)..Len(t) : t[q] # " "
    THEN CHOOSE q \in (p + 1)..Len(t) :
            /\ t[q] # " "
            /\ \A r \in (p + 1)..(q - 1) : t[r] = " "
    ELSE 0

\* The run of characters other than spaces that ends at position p
ChunkEndingAt(t, p) ==
    LET s == CHOOSE s \in 1..p :
                /\ \A r \in s..p : t[r] # " "
                /\ s = 1 \/ t[s - 1] = " "
    IN SubSeq(t, s, p)

\* The run of characters other than spaces that starts at position q
ChunkStartingAt(t, q) ==
    LET e == CHOOSE e \in q..Len(t) :
                /\ \A r \in q..e : t[r] # " "
                /\ e = Len(t) \/ t[e + 1] = " "
    IN SubSeq(t, q, e)

\* The last token of a chunk that ends in one period: what follows the
\* last run of periods inside the chunk
FinalToken(chunk) ==
    LET n == Len(chunk)
        dots == {k \in 2..(n - 1) : chunk[k - 1] = "." /\ chunk[k] = "."}
        from == IF dots = {} THEN 1
                ELSE 1 + CHOOSE k \in dots : \A j \in dots : j <= k
    IN SubSeq(chunk, from, n)

\* Punkt without training data: the period at position p ends a sentence
\* when white space and a further token follow it, it is not the end of an
\* ellipsis, and the token it ends is not an initial (one letter and the
\* period) that is followed by a word or by a lone period.
is_sentence_break(t, p) ==
    /\ t[p] = "."
    /\ p < Len(t)
    /\ t[p + 1] = " "
    /\ NextTokStart(t, p) # 0
    /\ LET chunk == ChunkEndingAt(t, p)
           next_tok == ChunkStartingAt(t, NextTokStart(t, p))
           tok == FinalToken(chunk)
       IN /\ ~(Len(chunk) >= 2 /\ chunk[Len(chunk) - 1] = ".")
          /\ (Len(tok) = 2 /\ is_word_char(tok[1]))
                => (next_tok[1] = "." /\ next_tok # <<".">>)

\* PunktSentenceTokenizer(PunktParameters()).tokenize(text) from the
\* position last_break on, p being the position looked at: each sentence
\* runs from the start of its first token to its last period, the last one
\* to the end of the text; the empty text has no sentence.
RECURSIVE sentences_from(_, _, _)
sentences_from(t, last_break, p) ==
    IF p > Len(t)
    THEN (IF last_break > Len(t) THEN <<>>
          ELSE <<SubSeq(t, last_break, Len(t))>>)
    ELSE IF is_sentence_break(t, p)
         THEN <<SubSeq(t, last_break, p)>>
                \o sentences_from(t, NextTokStart(t, p), NextTokStart(t, p))
         ELSE sentences_from(t, last_break, p + 1)

sentence_tokenize(text) == sentences_from(text, 1, 1)

\* re.sub(r"(n't)", ' not', s) from position i on
RECURSIVE sub_nt(_, _)
sub_nt(s, i) ==
    IF i > Len(s) THEN <<>>
    ELSE IF i + 2 <= Len(s) /\ s[i] = "n" /\ s[i + 1] = "'" /\ s[i + 2] = "t"
         THEN <<" ", "n", "o", "t">> \o sub_nt(s, i + 3)
         ELSE <<s[i]>> \o sub_nt(s, i + 1)

\* RegexpTokenizer(r'\w{2,}').tokenize(s) from position i on, run being the
\* word characters matched so far: every maximal run of word characters
\* that is two or more characters long
RECURSIVE regexp_tokenize(_, _, _)
regexp_tokenize(s, i, run) ==
    IF i > Len(s)
    THEN (IF Len(run) >= 2 THEN <<run>> ELSE <<>>)
    ELSE IF is_word_char(s[i])
         THEN regexp_tokenize(s, i + 1, Append(run, s[i]))
         ELSE (IF Len(run) >= 2 THEN <<run>> ELSE <<>>)
                \o regexp_tokenize(s, i + 1, <<>>)

\* [w for w in sentence if not w in stopwords.words(language)]
remove_stopwords(sentence) == SelectSeq(sentence, LAMBDA w : ~is_stopword(w))

\* text_processing(text, remove_punctuation=True, stemming=False,
\* remove_stopwords=rs, language='english')
text_processing(text, rs) ==
    LET sentences == sentence_tokenize(text)
        resolved == [k \in 1..Len(sentences) |-> sub_nt(sentences[k], 1)]
        tokenized == [k \in 1..Len(resolved) |->
                         regexp_tokenize(resolved[k], 1, <<>>)]
        kept == IF rs
                THEN [k \in 1..Len(tokenized) |-> remove_stopwords(tokenized[k])]
                ELSE tokenized
    IN [k \in 1..Len(kept) |-> [j \in 1..Len(kept[k]) |-> lower(kept[k][j])]]

\* The pieces the texts are written with: "n't" is written as a whole.
TextAtoms == {<<"i">>, <<"t">>, <<"I">>, <<".">>, <<" ">>, <<"n", "'", "t">>}

RECURSIVE Flatten(_)
Flatten(ss) == IF ss = <<>> THEN <<>> ELSE Head(ss) \o Flatten(Tail(ss))

\* The texts of at most MaxText pieces.
Texts == {Flatten(a) : a \in UNION {[1..n -> TextAtoms] : n \in 0..MaxText}}

InitNormalize ==
    /\ ClusterIdle
    /\ SearchIdle
    /\ TextIdle
    /\ ConcurrentIdle
    /\ MessageIdle
    /\ PercentIdle
    /\ CacheIdle
    /\ InterpIdle
    /\ ConfigIdle
    /\ tp_text \in Texts
    /\ tp_remove_stopwords \in BOOLEAN
    /\ tp_out = <<>>
    /\ tp_pc = "call"

\* text_processing(text, stemming=False, remove_stopwords=...)
TextProcessing ==
    /\ tp_pc = "call"
    /\ tp_out' = text_processing(tp_text, tp_remove_stopwords)
    /\ tp_pc' = "returned"
    /\ UNCHANGED <<tp_text, tp_remove_stopwords, clusterVars, searchVars,
                   textVars, concurrentVars, messageVars, percentVars,
                   cacheVars, interpVars, configVars>>

NextNormalize == TextProcessing

SpecNormalize == InitNormalize /\ [][NextNormalize]_vars

\* The sentence holds a run of two or more word characters, bounded by
\* other characters, that the stopword removal asked for leaves in.
HasKeptWord(s) ==
    \E a, b \in 1..Len(s) :
        /\ b > a
        /\ \A r \in a..b : is_word_char(s[r])
        /\ a = 1 \/ ~is_word_char(s[a - 1])
        /\ b = Len(s) \/ ~is_word_char(s[b + 1])
        /\ tp_remove_stopwords => SubSeq(s, a, b) \notin StopWords

\* C21 as stated: one token list per sentence, every list not empty, no
\* token holds a character that is not a word character.
C21_EverySentenceHasTokens ==
    tp_pc = "returned" =>
        /\ Len(tp_out) = Len(sentence_tokenize(tp_text))
        /\ \A k \in 1..Len(tp_out) :
             /\ tp_out[k] # <<>>
             /\ \A j \in 1..Len(tp_out[k]) : \A c \in 1..Len(tp_out[k][j]) :
                  is_word_char(tp_out[k][j][c])

\* C21 amended: one token list per sentence; the list of a sentence is
\* empty exactly when the sentence, "n't" written out as " not", holds no
\* run of two or more word characters that the stopword removal leaves in;
\* every token has two or more characters, all of them word characters.
C21_TokensPerSentence ==
    tp_pc = "returned" =>
        LET sentences == sentence_tokenize(tp_text)
        IN /\ Len(tp_out) = Len(sentences)
           /\ \A k \in 1..Len(tp_out) :
                /\ (tp_out[k] # <<>>) <=> HasKeptWord(sub_nt(sentences[k], 1))
                /\ \A j \in 1..Len(tp_out[k]) :
                     /\ Len(tp_out[k][j]) >= 2
                     /\ \A c \in 1..Len(tp_out[k][j]) :
                          is_word_char(tp_out[k][j][c])

\* A text of two sentences was processed: the list of one is empty and the
\* list of the other is not.
C21_Witness ==
    /\ tp_pc = "returned"
    /\ Len(tp_out) = 2
    /\ \E a, b \in 1..2 : tp_out[a] = <<>> /\ tp_out[b] # <<>>

\* ------------------------------------------------------------------------
\* models/models.py : Message.to_emotion_vector
\* ------------------------------------------------------------------------
MaxMessageWords == 2

\* The words the message texts are written with.
MessageWords ==
    {<<"S", "u", "n">>, <<"j", "o", "y">>, <<"i", "s">>,
     <<"s", "u", "n", ".">>}

\* " ".join(ws)
RECURSIVE JoinWords(_)
JoinWords(ws) ==
    IF ws = <<>> THEN <<>>
    ELSE IF Len(ws) = 1 THEN ws[1]
    ELSE ws[1] \o <<" ">> \o JoinWords(Tail(ws))

\* The message texts of at most MaxMessageWords words.
MessageTexts ==
    {JoinWords(ws) :
        ws \in UNION {[1..n -> MessageWords] : n \in 0..MaxMessageWords}}

\* The characters of the token strings that name the concepts of the model.
Spelling == [sun |-> <<"s", "u", "n">>, joy |-> <<"j", "o", "y">>]

\* The token string, as the name of a concept, spelled by the characters.
TokenName(w) == CHOOSE n \in DOMAIN Spelling : Spelling[n] = w

\* " ".join([" ".join([w for w in s]) for s in
\* text_processing(self.text, stemming=False)]).split()
message_tokens(text) ==
    LET words == Flatten(text_processing(text, TRUE))
    IN [i \in 1..Len(words) |-> TokenName(words[i])]

\* The edges a remote graph of the message model is drawn from.
MessageEdges ==
    { Edge(Uri("en", "sun"), Uri("en", "joy"), "Causes", 3),
      Edge(Uri("en", "fear"), Uri("en", "sun"), "RelatedTo", 2) }

\* The parameter triples of the CacheController passed as cc.
MessageTriples == {<<1, 1, 1>>, <<11, 1, 1>>}

\* What the file of the CacheController holds before the call: nothing, or
\* a vector stored for one word by an earlier call.
MessageShelves ==
    {<<>>,
     [k \in {"sun"} |->
         [name |-> "sun", emotions |-> [e \in {"fear"} |-> Quotient(1, 1)]]],
     [k \in {"joy"} |-> [name |-> "joy", emotions |-> <<>>]]}

\* self.cache of the CacheController cc
cc_file(cc) == cache_file_name(cc[1][1], cc[1][2], cc[1][3])

\* Variant: the vector of a missed token is not stored.
cache_after_miss_unstored(fs, cc, vector) == fs

\* cc.add_word(tokens[i]['name'], tokens[i]); without a cc nothing is stored
cache_after_miss(fs, cc, vector) ==
    IF cc = <<>> THEN fs
    ELSE [fs EXCEPT ![cc_file(cc)] = shelf_set(@, vector.name, vector)]

\* cc is not None and cc.fetch_word(t) is not None
is_cached(fs, cc, t) == cc # <<>> /\ shelf_get(fs[cc_file(cc)], t).hit

InitMessage ==
    /\ ClusterIdle
    /\ TextIdle
    /\ ConcurrentIdle
    /\ NormalizeIdle
    /\ PercentIdle
    /\ InterpIdle
    /\ ConfigIdle
    /\ remote \in [edges : SUBSET MessageEdges, failing : {{}}]
    /\ root_name = ""
    /\ token_queue = {}
    /\ token_queue_copy = {}
    /\ used_names = {}
    /\ emo_vector = EmptyVector("")
    /\ depth = 0
    /\ pc = "idle"
    /\ created = {}
    /\ looked_up = {}
    /\ results = <<>>
    /\ cache_last = [op |-> "none", n |-> 0]
    /\ cache_added = <<>>
    /\ msg_text \in MessageTexts
    /\ msg_cc \in {<<>>} \cup {<<t>> : t \in MessageTriples}
    /\ \E shelf \in MessageShelves :
         files = IF msg_cc = <<>> THEN <<>>
                 ELSE [f \in {cc_file(msg_cc)} |-> shelf]
    /\ msg_tokens = <<>>
    /\ msg_done = <<>>
    /\ msg_log = <<>>
    /\ msg_pc = "call"

\* The token of the iteration the loop is at.
CurrentToken == msg_tokens[Len(msg_done) + 1]

\* tokens = " ".join(... text_processing(self.text, stemming=False) ...)
\* .split()
Tokenize ==
    /\ msg_pc = "call"
    /\ msg_tokens' = message_tokens(msg_text)
    /\ msg_pc' = "loop"
    /\ UNCHANGED <<msg_text, msg_cc, msg_done, msg_log>>
    /\ UNCHANGED <<clusterVars, searchVars, textVars, concurrentVars, normalizeVars,
                   percentVars, cacheVars, interpVars, configVars>>

\* An iteration on a token the cache holds: tokens[i] = pot_t_vector
TokenCached ==
    /\ msg_pc = "loop"
    /\ Len(msg_done) < Len(msg_tokens)
    /\ is_cached(files, msg_cc, CurrentToken)
    /\ msg_done' =
         Append(msg_done,
                shelf_get(files[cc_file(msg_cc)], CurrentToken).value[1])
    /\ msg_log' = Append(msg_log, [cached |-> TRUE, runs |-> Len(results)])
    /\ UNCHANGED <<msg_text, msg_cc, msg_tokens, msg_pc>>
    /\ UNCHANGED <<clusterVars, searchVars, textVars, concurrentVars, normalizeVars,
                   percentVars, cacheVars, interpVars, configVars>>

\* An iteration on a token the cache does not hold, or without a cc:
\* build_graph is called
TokenSearched ==
    /\ msg_pc = "loop"
    /\ Len(msg_done) < Len(msg_tokens)
    /\ ~is_cached(files, msg_cc, CurrentToken)
    /\ StartSearch(CurrentToken)
    /\ msg_pc' = "search"
    /\ UNCHANGED <<remote, results>>
    /\ UNCHANGED <<msg_text, msg_cc, msg_tokens, msg_done, msg_log>>
    /\ UNCHANGED <<clusterVars, textVars, concurrentVars, normalizeVars,
                   percentVars, cacheVars, interpVars, configVars>>

\* build_graph has returned: tokens[i] = its vector, and
\* cc.add_word(tokens[i]['name'], tokens[i])
TokenStored ==
    /\ msg_pc = "search"
    /\ pc = "done"
    /\ msg_done' = Append(msg_done, emo_vector)
    /\ msg_log' =
         Append(msg_log,
                [cached |-> msg_cc # <<>>
                              /\ CurrentToken \in
                                   DOMAIN files[cc_file(msg_cc)],
                 runs |-> Len(results)])
    /\ files' = cache_after_miss(files, msg_cc, emo_vector)
    /\ msg_pc' = "loop"
    /\ UNCHANGED <<msg_text, msg_cc, msg_tokens, cache_last, cache_added>>
    /\ UNCHANGED <<clusterVars, searchVars, textVars, concurrentVars, normalizeVars,
                   percentVars, interpVars, configVars>>

\* self.text = tokens / return self
ToEmotionVectorReturns ==
    /\ msg_pc = "loop"
    /\ Len(msg_done) = Len(msg_tokens)
    /\ msg_pc' = "returned"
    /\ UNCHANGED <<msg_text, msg_cc, msg_tokens, msg_done, msg_log>>
    /\ UNCHANGED <<clusterVars, searchVars, textVars, concurrentVars, normalizeVars,
                   percentVars, cacheVars, interpVars, configVars>>

NextMessage ==
    \/ Tokenize
    \/ TokenCached
    \/ TokenSearched
    \/ VisitEmotion
    \/ Expand
    \/ ExpandFailed
    \/ Recurse
    \/ Return
    \/ TokenStored
    \/ ToEmotionVectorReturns

SpecMessage == InitMessage /\ [][NextMessage]_vars

\* The number of build_graph calls that returned when token i was replaced.
RunsBefore(i) == IF i = 1 THEN 0 ELSE msg_log[i - 1].runs

\* C26: the cache is read through per token.  After to_emotion_vector
\* returns with a cache controller, every token has a vector in its place;
\* a token the cache held got the stored vector and no graph search ran for
\* it; a token the cache did not hold got the vector of exactly one graph
\* search run for it; and the cache entry of every token equals the vector
\* in its place.
C26_CacheReadThrough ==
    (msg_pc = "returned" /\ msg_cc # <<>>) =>
        /\ Len(msg_done) = Len(msg_tokens)
        /\ \A i \in 1..Len(msg_tokens) :
             /\ msg_log[i].cached => msg_log[i].runs = RunsBefore(i)
             /\ ~msg_log[i].cached =>
                  /\ msg_log[i].runs = RunsBefore(i) + 1
                  /\ msg_done[i] = results[msg_log[i].runs]
                  /\ msg_done[i].name = msg_tokens[i]
             /\ msg_tokens[i] \in DOMAIN files[cc_file(msg_cc)]
             /\ files[cc_file(msg_cc)][msg_tokens[i]] = msg_done[i]

\* A message of two tokens was processed with a cache controller: one
\* token was in the cache, the other was searched and got an emotion.
C26_Witness ==
    /\ msg_pc = "returned"
    /\ msg_cc # <<>>
    /\ Len(msg_tokens) = 2
    /\ \E i, j \in 1..2 :
         /\ msg_log[i].cached
         /\ ~msg_log[j].cached
         /\ DOMAIN msg_done[j].emotions # {}

\* ------------------------------------------------------------------------
\* Properties of the clusterer over all its sessions
\* ------------------------------------------------------------------------

\* C30: the messages of the Conversations sealed so far, in sealing order,
\* followed by the messages of the current session are the accepted
\* messages in arrival order: none is dropped, none is there twice and none
\* is in two sessions.
C30_MessagesConserved ==
    /\ Flatten(Sessions) = [k \in 1..Len(Accepted) |-> Accepted[k].value]
    /\ \A k \in 1..Len(Accepted) :
         Cardinality(SessionsOf(Accepted[k].value)) = 1

\* Two Conversations were sealed, the current session holds a message and
\* one call was rejected.
C30_Witness ==
    /\ Len(conversations) >= 2
    /\ Len(get_messages(db)) >= 1
    /\ Len(Accepted) < Len(calls)

\* ------------------------------------------------------------------------
\* models/persistence.py : Emotext.handle_message
\* ------------------------------------------------------------------------

\* The texts of the messages handed to handle_message: "", "Sun is joy" and
\* "sun. joy".
HandledTexts ==
    {<<>>,
     JoinWords(<<<<"S", "u", "n">>, <<"i", "s">>, <<"j", "o", "y">>>>),
     JoinWords(<<<<"s", "u", "n", ".">>, <<"j", "o", "y">>>>)}

\* Message(entity_name, text), the i-th message handed in: its text is the
\* string.  Message.text holds in turn a string ("raw"), a list of token
\* strings ("tokens") or a list of vector dicts ("vectors").
RawMessage(i, text) ==
    [type |-> "Message", id |-> i, text |-> [stage |-> "raw", chars |-> text]]

\* Variant: the text is handed on as it came.
handle_message_text_unprocessed(text) == text

\* " ".join([" ".join([w for w in s]) for s in
\* text_processing(message.text, stemming=False)]).split()
handle_message_text(text) ==
    [stage |-> "tokens", tokens |-> message_tokens(text.chars)]

InitPipeline == InitCluster

\* Emotext.handle_message(message): the text of the message is replaced by
\* its tokens and the message is handed to self.mc.add_message
HandleMessage ==
    /\ Len(calls) < MaxCalls
    /\ \E text \in HandledTexts :
         LET message == RawMessage(Len(calls) + 1, text)
             processed == [message EXCEPT !.text = handle_message_text(@)]
         IN /\ AddMessageAccepted(processed)
            /\ calls' = Append(calls, [value |-> processed, at |-> now,
                                       raw |-> text])
    /\ UNCHANGED <<now, tolerance_time>>
    /\ UNCHANGED <<searchVars, textVars, libraryVars>>

NextPipeline == Tick \/ HandleMessage

SpecPipeline == InitPipeline /\ [][NextPipeline]_vars

\* The text of the message is a list of emotion vectors, one per token (the
\* empty list for a message without tokens).
CarriesVectors(m) ==
    \/ m.text.stage = "vectors"
    \/ m.text.stage = "tokens" /\ m.text.tokens = <<>>

MaxSends == 2

\* The threads that call add_message on the one MessageCluster.  The code
\* takes no lock: the statements of the calls interleave.
Producers == {"p1", "p2"}

\* A thread outside add_message.
ProducerIdle ==
    [pc |-> "idle", call |-> 0, message |-> Value("str", 0),
     messages |-> <<>>]

InitConcurrent ==
    /\ now = 0
    /\ tolerance_time \in 1..MaxTolerance
    /\ db = EmptyDb
    /\ conversations = <<>>
    /\ calls = <<>>
    /\ last = NoCall
    /\ threads = <<>>
    /\ SearchIdle
    /\ TextIdle
    /\ MessageIdle
    /\ NormalizeIdle
    /\ PercentIdle
    /\ CacheIdle
    /\ InterpIdle
    /\ ConfigIdle
    /\ producers = [p \in Producers |-> ProducerIdle]

\* What a step of a thread inside add_message leaves alone.
ProducerFrame ==
    /\ UNCHANGED <<now, tolerance_time, last>>
    /\ UNCHANGED <<searchVars, textVars, messageVars, normalizeVars,
                   percentVars, cacheVars, interpVars, configVars>>

\* add_message(message) is called with a Message: isinstance holds
EnterAddMessage(p) ==
    /\ producers[p].pc = "idle"
    /\ Len(calls) < MaxSends
    /\ LET v == Value("Message", Len(calls) + 1)
       IN /\ is_message(v)
          /\ calls' = Append(calls, [value |-> v, at |-> now, by |-> p])
          /\ producers' = [producers EXCEPT ![p] =
                 [pc |-> "check", call |-> Len(calls) + 1, message |-> v,
                  messages |-> <<>>]]
    /\ UNCHANGED <<db, conversations, threads>>
    /\ ProducerFrame

\* if self.is_conversation_over():
CheckOver(p) ==
    /\ producers[p].pc = "check"
    /\ producers' = [producers EXCEPT ![p].pc =
           IF is_conversation_over(db, now) THEN "over" ELSE "read"]
    /\ UNCHANGED <<db, conversations, calls, threads>>
    /\ ProducerFrame

\* if len(self.get_messages()) > 0:
\*     conversation = self.to_conversation_obj()
SealOld(p) ==
    /\ producers[p].pc = "over"
    /\ conversations' = IF has_old_conversation(db)
                        THEN Append(conversations, to_conversation_obj(db))
                        ELSE conversations
    /\ threads' = IF has_old_conversation(db)
                  THEN Append(threads, conversation_thread)
                  ELSE threads
    /\ producers' = [producers EXCEPT ![p].pc = "reset"]
    /\ UNCHANGED <<db, calls>>
    /\ ProducerFrame

\* self.reset_db()
ResetDb(p) ==
    /\ producers[p].pc = "reset"
    /\ db' = reset_db(db)
    /\ producers' = [producers EXCEPT ![p].pc = "fresh"]
    /\ UNCHANGED <<conversations, calls, threads>>
    /\ ProducerFrame

\* self.db['messages'] = [message]
SetFresh(p) ==
    /\ producers[p].pc = "fresh"
    /\ db' = db_set_messages(db, <<producers[p].message>>)
    /\ producers' = [producers EXCEPT ![p].pc = "tolerance"]
    /\ UNCHANGED <<conversations, calls, threads>>
    /\ ProducerFrame

\* messages = self.get_messages()
ReadMessages(p) ==
    /\ producers[p].pc = "read"
    /\ producers' = [producers EXCEPT ![p].pc = "write",
                                      ![p].messages = get_messages(db)]
    /\ UNCHANGED <<db, conversations, calls, threads>>
    /\ ProducerFrame

\* messages.append(message) / self.db['messages'] = messages
WriteMessages(p) ==
    /\ producers[p].pc = "write"
    /\ db' = db_set_messages(db, append_message(producers[p].messages,
                                                producers[p].message))
    /\ producers' = [producers EXCEPT ![p].pc = "tolerance"]
    /\ UNCHANGED <<conversations, calls, threads>>
    /\ ProducerFrame

\* self.start_tolerance(), and add_message returns
StartTolerance(p) ==
    /\ producers[p].pc = "tolerance"
    /\ db' = start_tolerance(db, now, tolerance_time)
    /\ producers' = [producers EXCEPT ![p].pc = "idle"]
    /\ UNCHANGED <<conversations, calls, threads>>
    /\ ProducerFrame

NextConcurrent ==
    \/ Tick
    \/ \E p \in Producers : EnterAddMessage(p)
    \/ \E p \in Producers : CheckOver(p)
    \/ \E p \in Producers : SealOld(p)
    \/ \E p \in Producers : ResetDb(p)
    \/ \E p \in Producers : SetFresh(p)
    \/ \E p \in Producers : ReadMessages(p)
    \/ \E p \in Producers : WriteMessages(p)
    \/ \E p \in Producers : StartTolerance(p)

SpecConcurrent == InitConcurrent /\ [][NextConcurrent]_vars

\* The add_message call k has returned.
HasReturned(k) ==
    ~(producers[calls[k].by].call = k /\ producers[calls[k].by].pc # "idle")

\* No accepted message whose call has returned is lost or doubled: it is in
\* the current session or in exactly one sealed Conversation.
NoMessageLost ==
    \A k \in 1..Len(calls) :
        HasReturned(k) => Cardinality(SessionsOf(calls[k].value)) = 1

\* No thread is about to check the expiry while another thread has written
\* the new message list and not yet the new expiry.
NoTornCheck ==
    \A p, q \in Producers :
        ~(p # q /\ producers[p].pc = "check"
                /\ producers[q].pc = "tolerance")

\* C27: with two threads calling add_message the sequence check expiry,
\* append or reset, set expiry is one atomic step: no interleaving loses an
\* accepted message, and no is_conversation_over check sees the new message
\* list together with the old expiry.
C27_AddMessageAtomic == NoMessageLost /\ NoTornCheck

\* C31: a session is sealed only as a step of add_message.  A step without
\* an add_message call, the passage of time, leaves the store and the
\* sealed Conversations as they are; the Conversations grow only by the
\* old session in a call that starts a fresh one; and once a message has
\* been accepted the current session in the store is never empty, however
\* long its expiry has passed.
C31_SealedOnlyByAddMessage ==
    [][/\ calls' = calls => (db' = db /\ conversations' = conversations)
       /\ conversations' # conversations =>
            /\ Len(calls') = Len(calls) + 1
            /\ last'.outcome = "fresh"
            /\ conversations' = Append(conversations, get_messages(db))
       /\ Len(Accepted') >= 1 => get_messages(db') # <<>>]_vars

\* The expiry of the current session has passed by two seconds or more:
\* the session still holds its message and nothing has been sealed.
C31_Witness ==
    /\ "future_time" \in db.keys
    /\ now >= db.future_time + 2
    /\ Len(get_messages(db)) >= 1
    /\ conversations = <<>>
====
